---- MODULE Spec2Model ----
(***************************************************************************)
(* Extendible-hashing map of SteveLauC/ExtendableHashMap (src/src/map.rs,  *)
(* src/src/bucket.rs, src/src/util.rs).  The table is the four fields of   *)
(* HashMap; insert, remove and get are one action each, with split and the *)
(* coalesce of remove computed inside the action as the code computes      *)
(* them.  A panic (failed assert!, unwrap on None, index out of range)     *)
(* ends the program: it is recorded in `fault` and no operation follows.   *)
(***************************************************************************)
EXTENDS Integers, Sequences, FiniteSets, TLC

VARIABLES len, global_depth, directories, buckets, fault, last, shadow, hasher

vars == <<len, global_depth, directories, buckets, fault, last, shadow, hasher>>

(***************************************************************************)
(* Program constant and model bounds.                                      *)
(***************************************************************************)
BUCKET_CAP == 3

\* width of the hash value (u64::BITS in the code, scaled down)
HashBits == 4
\* keys are 0 .. NumKeys-1, values 1 .. NumValues
NumKeys == 5
NumValues == 2
\* the keys of the insert-only runs are 0 .. NumGrowKeys-1
NumGrowKeys == 10
\* the directory cannot grow beyond 2^MaxDepth slots (memory of the machine)
MaxDepth == 5

Keys == 0 .. (NumKeys - 1)
GrowKeys == 0 .. (NumGrowKeys - 1)
Values == 1 .. NumValues

\* Option<V>
None == <<>>
Some(v) == <<v>>

NoFault == "none"

Pow2(n) == IF n <= 0 THEN 1 ELSE 2 ^ n

(***************************************************************************)
(* DefaultHasher (std, SipHash) applied to the key type's Hash: a total    *)
(* function from keys to HashBits-wide values, fixed for a run.  `hasher`  *)
(* is its table, entry k+1 the hash of key k; keys beyond the table wrap   *)
(* around.  No table gives more than BUCKET_CAP keys the same hash.        *)
(* HashTables: keys crowded under one prefix, so that buckets split below  *)
(* the global depth and merge again.  GrowTable: four keys under 00, four  *)
(* under 1, and two more under 000, for the insert-only runs.              *)
(***************************************************************************)
HashTables == {<<0, 1, 1, 1, 3>>, <<2, 4, 5, 6, 7>>}

GrowTable == <<0, 1, 2, 3, 8, 10, 12, 14, 0, 1>>

\* the values of the hash type: 0 .. HashModulus - 1
HashModulus == Pow2(HashBits)

hash_res(key) == hasher[(key % Len(hasher)) + 1] % HashModulus

(***************************************************************************)
(* util.rs                                                                 *)
(***************************************************************************)
val_msb == Pow2(HashBits - 1)

\* the i-th pushed bit (i from 1) tests the msb of num after i-1 shifts
get_first_n_bits(n, num) ==
    [i \in 1 .. n |->
        IF (num * Pow2(i - 1)) % HashModulus >= val_msb THEN 1 ELSE 0]

\* bits_to_value without .rev(): the first bit gets the weight 2^0
RECURSIVE bits_to_value_lsb_first(_)
bits_to_value_lsb_first(bits) ==
    IF bits = <<>> THEN 0
    ELSE bits[1] + 2 * bits_to_value_lsb_first(Tail(bits))

RECURSIVE bits_to_value(_)
bits_to_value(bits) ==
    IF bits = <<>> THEN 0
    ELSE bits[1] * Pow2(Len(bits) - 1) + bits_to_value(Tail(bits))

(***************************************************************************)
(* bucket.rs                                                               *)
(***************************************************************************)
Bucket_new(bits) == [bits |-> bits, data |-> <<>>]

local_depth(bucket) == Len(bucket.bits)

contains(bucket, key) == \E i \in 1 .. Len(bucket.data) : bucket.data[i][1] = key

\* is_full off by one: full only once the capacity is exceeded
is_full_late(bucket) == Len(bucket.data) > BUCKET_CAP

\* the capacity of data stays the BUCKET_CAP that Bucket::new reserves
is_full(bucket) == Len(bucket.data) = BUCKET_CAP

\* the EqualTo fold without .rev(): weight 2^idx for the idx-th bit from the
\* start
RECURSIVE value_equal_unreversed(_)
value_equal_unreversed(bits) ==
    IF bits = <<>> THEN 0
    ELSE bits[1] + 2 * value_equal_unreversed(Tail(bits))

\* fold of the EqualTo branch: weight 2^idx for the idx-th bit from the end
RECURSIVE value_equal(_)
value_equal(bits) ==
    IF bits = <<>> THEN 0
    ELSE bits[Len(bits)] + 2 * value_equal(SubSeq(bits, 1, Len(bits) - 1))

\* fold of the Range branch: weight 2^(global_depth - idx - 1), idx from 0
RECURSIVE value_start(_, _, _)
value_start(bits, gd, idx) ==
    IF idx >= Len(bits) THEN 0
    ELSE Pow2(gd - idx - 1) * bits[idx + 1] + value_start(bits, gd, idx + 1)

value(bucket, gd) ==
    IF local_depth(bucket) = gd
    THEN [tag |-> "EqualTo", start |-> value_equal(bucket.bits),
          end |-> value_equal(bucket.bits)]
    ELSE IF ~(local_depth(bucket) < gd)
    THEN [tag |-> "Panic", start |-> 0, end |-> 0]
    ELSE [tag |-> "Range",
          start |-> value_start(bucket.bits, gd, 0),
          end |-> value_start(bucket.bits, gd, 0)
                    + Pow2(gd - local_depth(bucket)) - 1]

\* the directory indexes a BucketValue names (EqualTo(n) is the one index n)
ValueSlots(bv) == bv.start .. bv.end

last_half_range(bv) ==
    IF bv.tag = "Range"
    THEN LET half_len == (bv.end - bv.start) \div 2
         IN  Some([tag |-> "Range", start |-> bv.start + half_len, end |-> bv.end])
    ELSE None

(***************************************************************************)
(* map.rs: the table as a record, so that split can recurse on it.         *)
(***************************************************************************)
Map == [len |-> len, global_depth |-> global_depth,
        directories |-> directories, buckets |-> buckets, fault |-> fault]

Default == [len |-> 0, global_depth |-> 1, directories |-> <<0, 1>>,
            buckets |-> <<Bucket_new(<<0>>), Bucket_new(<<1>>)>>,
            fault |-> NoFault]

Panic(m, msg) == [m EXCEPT !.fault = msg]

capacity(m) == Len(m.directories) * BUCKET_CAP

\* directories[idx] = bucket_idx for every idx of slots; an index past the
\* end of the vector panics
SetSlots(m, slots, bucket_idx) ==
    IF \E s \in slots : s >= Len(m.directories)
    THEN Panic(m, "index out of bounds")
    ELSE [m EXCEPT !.directories =
            [i \in 1 .. Len(m.directories) |->
                IF (i - 1) \in slots THEN bucket_idx ELSE m.directories[i]]]

\* -1: the directory index is past the end of the directory
locate_bucket(m, key) ==
    LET first_bits == get_first_n_bits(m.global_depth, hash_res(key))
        directory_idx == bits_to_value(first_bits)
    IN  IF directory_idx < Len(m.directories)
        THEN m.directories[directory_idx + 1]
        ELSE -1

ValidIdx(m, idx) == idx >= 0 /\ idx < Len(m.buckets)

\* for bucket_idx in from .. buckets.len(): point the slots of its value at it
RECURSIVE redistribute(_, _)
redistribute(m, from) ==
    IF m.fault # NoFault \/ from >= Len(m.buckets) THEN m
    ELSE LET bv == value(m.buckets[from + 1], m.global_depth)
         IN  IF bv.tag = "Panic"
             THEN Panic(m, "assertion failed: local_depth < global_depth")
             ELSE redistribute(SetSlots(m, ValueSlots(bv), from), from + 1)

\* the rehash loop of split
RECURSIVE rehash(_, _, _, _)
rehash(m, items, bucket_to_split, new_bucket_idx) ==
    IF m.fault # NoFault \/ items = <<>> THEN m
    ELSE LET idx == locate_bucket(m, Head(items)[1])
         IN  IF ~(idx = bucket_to_split \/ idx = new_bucket_idx)
             THEN Panic(m, "assertion failed: rehashed item")
             ELSE rehash([m EXCEPT !.buckets[idx + 1].data = Append(@, Head(items))],
                         Tail(items), bucket_to_split, new_bucket_idx)

\* split_directory with `self.global_depth += 1` left out of the doubling
split_directory_depth_kept(m, bucket_to_split) ==
    LET b == m.buckets[bucket_to_split + 1]
        new_bucket_idx == Len(m.buckets)
        pushed == [m EXCEPT !.buckets =
                     Append([@ EXCEPT ![bucket_to_split + 1].bits = Append(@, 0)],
                            Bucket_new(Append(b.bits, 1)))]
    IN  IF local_depth(b) < m.global_depth
        THEN SetSlots(pushed, ValueSlots(last_half_range(value(b, m.global_depth))[1]),
                      new_bucket_idx)
        ELSE redistribute(
                [pushed EXCEPT !.directories = @ \o [i \in 1 .. Len(@) |-> 0]],
                0)

\* the directory update of split, up to the rehash
split_directory(m, bucket_to_split) ==
    LET b == m.buckets[bucket_to_split + 1]
        old_local_depth == local_depth(b)
        old_global_depth == m.global_depth
        bucket_value == value(b, old_global_depth)
        new_bucket_idx == Len(m.buckets)
        pushed == [m EXCEPT !.buckets =
                     Append([@ EXCEPT ![bucket_to_split + 1].bits = Append(@, 0)],
                            Bucket_new(Append(b.bits, 1)))]
    IN  IF old_local_depth < old_global_depth
        THEN SetSlots(pushed, ValueSlots(last_half_range(bucket_value)[1]),
                      new_bucket_idx)
        ELSE IF old_global_depth >= MaxDepth
        THEN Panic(pushed, "capacity overflow")
        ELSE redistribute(
                [pushed EXCEPT !.global_depth = @ + 1,
                               !.directories = @ \o [i \in 1 .. Len(@) |-> 0]],
                0)

RECURSIVE split(_, _, _, _)
split(m, key, val, bucket_to_split) ==
    IF ~(local_depth(m.buckets[bucket_to_split + 1]) <= m.global_depth)
    THEN Panic(m, "assertion failed: old_local_depth <= old_global_depth")
    ELSE
    LET new_bucket_idx == Len(m.buckets)
        m1 == split_directory(m, bucket_to_split)
        items_need_rehash == m1.buckets[bucket_to_split + 1].data
        m2 == rehash([m1 EXCEPT !.buckets[bucket_to_split + 1].data = <<>>],
                     items_need_rehash, bucket_to_split, new_bucket_idx)
        idx == locate_bucket(m2, key)
    IN  IF m1.fault # NoFault THEN m1
        ELSE IF m2.fault # NoFault THEN m2
        ELSE IF ~(idx = bucket_to_split \/ idx = new_bucket_idx)
        THEN Panic(m2, "assertion failed: pending item")
        ELSE IF is_full(m2.buckets[idx + 1])
        THEN split(m2, key, val, idx)
        ELSE [m2 EXCEPT !.buckets[idx + 1].data = Append(@, <<key, val>>)]

insert(m, key, val) ==
    LET bucket_idx == locate_bucket(m, key)
    IN  IF ~ValidIdx(m, bucket_idx)
        THEN [map |-> Panic(m, "called Option::unwrap() on a None value"),
              ret |-> None]
        ELSE IF contains(m.buckets[bucket_idx + 1], key)
        THEN [map |-> m, ret |-> Some(val)]
        ELSE LET pushed ==
                   IF ~is_full(m.buckets[bucket_idx + 1])
                   THEN [m EXCEPT !.buckets[bucket_idx + 1].data =
                                      Append(@, <<key, val>>)]
                   ELSE split(m, key, val, bucket_idx)
             IN  IF pushed.fault # NoFault
                 THEN [map |-> pushed, ret |-> None]
                 ELSE [map |-> [pushed EXCEPT !.len = @ + 1], ret |-> None]

\* Vec::remove(index), index from 0
RemoveAt(seq, index) ==
    SubSeq(seq, 1, index) \o SubSeq(seq, index + 2, Len(seq))

\* iter().position(|(k, _)| k == key), from 0; -1 when there is none
position(data, key) ==
    IF \E i \in 1 .. Len(data) : data[i][1] = key
    THEN (CHOOSE i \in 1 .. Len(data) :
            /\ data[i][1] = key
            /\ \A j \in 1 .. (i - 1) : data[j][1] # key) - 1
    ELSE -1

\* Vec::resize(new_len, 0)
resize(bits, new_len) ==
    [i \in 1 .. new_len |-> IF i <= Len(bits) THEN bits[i] ELSE 0]

\* the bucket the directory gives for the bits of `bucket` with the last one
\* flipped; -1 when the directory index is out of range
sibling_of(m, bucket) ==
    LET bucket_bits == bucket.bits
        bucket_last_bit == bucket_bits[Len(bucket_bits)]
        flipped == [bucket_bits EXCEPT ![Len(bucket_bits)] = 1 - bucket_last_bit]
        directory_idx == bits_to_value(resize(flipped, m.global_depth))
    IN  IF directory_idx < Len(m.directories)
        THEN m.directories[directory_idx + 1]
        ELSE -1

\* Vec::extend: the transferred entries follow the winner's own
extend(data, other) == data \o other

\* can_fit with <= for <: two buckets that fill one exactly also merge
can_fit_exactly(sibling, bucket) ==
    Len(sibling.data) + Len(bucket.data) <= BUCKET_CAP

\* "The data of two buckets can fit into one bucket"
can_fit(sibling, bucket) == Len(sibling.data) + Len(bucket.data) < BUCKET_CAP

\* the `?` of remove: no entry has the key, nothing is touched
not_found(m) == [map |-> m, ret |-> None]

\* coalesce followed by a directory shrink: the global depth is decremented
\* and the upper half of the directory dropped
coalesce_shrinking(m, winner, loser) ==
    LET loser_value == value(m.buckets[loser + 1], m.global_depth)
        drained == m.buckets[loser + 1].data
        m1 == [m EXCEPT !.buckets[loser + 1].data = <<>>]
        m2 == [m1 EXCEPT !.buckets[winner + 1].data = extend(@, drained)]
        m3 == [m2 EXCEPT !.buckets[winner + 1].bits = SubSeq(@, 1, Len(@) - 1)]
        m4 == SetSlots(m3, ValueSlots(loser_value), winner)
        m5 == [m4 EXCEPT !.buckets = RemoveAt(@, loser),
                         !.global_depth = @ - 1,
                         !.directories = SubSeq(@, 1, Len(@) \div 2)]
    IN  IF loser_value.tag = "Panic" THEN m
        ELSE IF m4.fault # NoFault THEN m4
        ELSE m5

\* coalesce repeated while the survivor can merge with its new sibling
RECURSIVE coalesce_cascading(_, _, _)
coalesce_cascading(m, winner, loser) ==
    LET loser_value == value(m.buckets[loser + 1], m.global_depth)
        drained == m.buckets[loser + 1].data
        m1 == [m EXCEPT !.buckets[loser + 1].data = <<>>]
        m2 == [m1 EXCEPT !.buckets[winner + 1].data = extend(@, drained)]
        m3 == [m2 EXCEPT !.buckets[winner + 1].bits = SubSeq(@, 1, Len(@) - 1)]
        m4 == SetSlots(m3, ValueSlots(loser_value), winner)
        m5 == redistribute([m4 EXCEPT !.buckets = RemoveAt(@, loser)], loser)
        survivor_idx == IF winner > loser THEN winner - 1 ELSE winner
        survivor == m5.buckets[survivor_idx + 1]
        sibling_idx == sibling_of(m5, survivor)
    IN  IF loser_value.tag = "Panic" THEN m
        ELSE IF m4.fault # NoFault THEN m4
        ELSE IF m5.fault # NoFault \/ winner = loser THEN m5
        ELSE IF /\ local_depth(survivor) >= 2
                /\ ValidIdx(m5, sibling_idx)
                /\ sibling_idx # survivor_idx
                /\ local_depth(m5.buckets[sibling_idx + 1]) = local_depth(survivor)
                /\ can_fit(m5.buckets[sibling_idx + 1], survivor)
        THEN IF survivor.bits[Len(survivor.bits)] = 1
             THEN coalesce_cascading(m5, sibling_idx, survivor_idx)
             ELSE coalesce_cascading(m5, survivor_idx, sibling_idx)
        ELSE m5

\* either arm of "begin coalescence": the data of `loser` goes to `winner`,
\* whose last bit is popped; the slots of loser's value go to winner; loser
\* leaves the vector and every bucket from its index on is redistributed
coalesce(m, winner, loser) ==
    LET loser_value == value(m.buckets[loser + 1], m.global_depth)
        drained == m.buckets[loser + 1].data
        m1 == [m EXCEPT !.buckets[loser + 1].data = <<>>]
        m2 == [m1 EXCEPT !.buckets[winner + 1].data = extend(@, drained)]
        m3 == [m2 EXCEPT !.buckets[winner + 1].bits = SubSeq(@, 1, Len(@) - 1)]
        m4 == SetSlots(m3, ValueSlots(loser_value), winner)
        m5 == [m4 EXCEPT !.buckets = RemoveAt(@, loser)]
    IN  IF loser_value.tag = "Panic"
        THEN Panic(m, "assertion failed: local_depth < global_depth")
        ELSE IF m4.fault # NoFault THEN m4
        ELSE redistribute(m5, loser)

\* coalesce_pair without the test local_depth() >= 2
coalesce_pair_any_depth(m, bucket_idx) ==
    LET bucket == m.buckets[bucket_idx + 1]
        sibling_idx == sibling_of(m, bucket)
        sibling == m.buckets[sibling_idx + 1]
    IN  IF local_depth(sibling) = local_depth(bucket) /\ can_fit(sibling, bucket)
        THEN IF bucket.bits[Len(bucket.bits)] = 1
             THEN <<sibling_idx, bucket_idx>>
             ELSE <<bucket_idx, sibling_idx>>
        ELSE <<>>

\* what remove decides after the entry is deleted: <<winner, loser>> of the
\* merge, or <<>> when there is none
coalesce_pair(m, bucket_idx) ==
    LET bucket == m.buckets[bucket_idx + 1]
        sibling_idx == sibling_of(m, bucket)
        sibling == m.buckets[sibling_idx + 1]
        bucket_last_bit == bucket.bits[Len(bucket.bits)]
    IN  IF local_depth(bucket) >= 2
           /\ local_depth(sibling) = local_depth(bucket)
           /\ can_fit(sibling, bucket)
        THEN IF bucket_last_bit = 1
             THEN <<sibling_idx, bucket_idx>>
             ELSE <<bucket_idx, sibling_idx>>
        ELSE <<>>

remove(m, key) ==
    LET bucket_idx == locate_bucket(m, key)
    IN  IF ~ValidIdx(m, bucket_idx)
        THEN [map |-> Panic(m, "locate_bucket() returns a wrong index"),
              ret |-> None]
        ELSE
        LET data == m.buckets[bucket_idx + 1].data
            key_idx == position(data, key)
        IN  IF key_idx < 0 THEN not_found(m)
            ELSE IF m.len = 0
            THEN [map |-> Panic(m, "attempt to subtract with overflow"),
                  ret |-> None]
            ELSE
            LET val == data[key_idx + 1][2]
                m1 == [m EXCEPT !.buckets[bucket_idx + 1].data =
                                    RemoveAt(@, key_idx),
                                !.len = @ - 1]
                bucket == m1.buckets[bucket_idx + 1]
            IN  IF local_depth(bucket) >= 2 /\ ~ValidIdx(m1, sibling_of(m1, bucket))
                THEN [map |-> Panic(m1, "called Option::unwrap() on a None value"),
                      ret |-> None]
                ELSE LET pair == coalesce_pair(m1, bucket_idx)
                         m2 == IF pair = <<>> THEN m1
                               ELSE coalesce(m1, pair[1], pair[2])
                     IN  [map |-> m2,
                          ret |-> IF m2.fault = NoFault THEN Some(val) ELSE None]

get(m, key) ==
    LET bucket_idx == locate_bucket(m, key)
    IN  IF ~ValidIdx(m, bucket_idx)
        THEN [map |-> Panic(m, "locate_bucket() returns a wrong index"),
              ret |-> None]
        ELSE LET data == m.buckets[bucket_idx + 1].data
                 key_idx == position(data, key)
             IN  [map |-> m,
                  ret |-> IF key_idx < 0 THEN None
                          ELSE Some(data[key_idx + 1][2])]

(***************************************************************************)
(* The state machine: one action per public operation.                     *)
(***************************************************************************)
Init ==
    /\ len = Default.len
    /\ global_depth = Default.global_depth
    /\ directories = Default.directories
    /\ buckets = Default.buckets
    /\ fault = Default.fault
    /\ last = [op |-> "new", key |-> 0, value |-> 0, ret |-> None]
    /\ shadow = [k \in Keys \cup GrowKeys |-> None]
    /\ hasher \in HashTables

Becomes(m) ==
    /\ len' = m.len
    /\ global_depth' = m.global_depth
    /\ directories' = m.directories
    /\ buckets' = m.buckets
    /\ fault' = m.fault

\* shadow[k] is Some(v) when the last insert(k, _) that returned none had the
\* value v and no remove(k) has returned a value since (history, not read by
\* the operations)
Insert(k, v) ==
    LET res == insert(Map, k, v)
    IN  /\ fault = NoFault
        /\ Becomes(res.map)
        /\ last' = [op |-> "insert", key |-> k, value |-> v, ret |-> res.ret]
        /\ shadow' = IF res.map.fault = NoFault /\ res.ret = None
                     THEN [shadow EXCEPT ![k] = Some(v)]
                     ELSE shadow
        /\ UNCHANGED hasher

Remove(k) ==
    LET res == remove(Map, k)
    IN  /\ fault = NoFault
        /\ Becomes(res.map)
        /\ last' = [op |-> "remove", key |-> k, value |-> 0, ret |-> res.ret]
        /\ shadow' = IF res.ret # None
                     THEN [shadow EXCEPT ![k] = None]
                     ELSE shadow
        /\ UNCHANGED hasher

Get(k) ==
    LET res == get(Map, k)
    IN  /\ fault = NoFault
        /\ Becomes(res.map)
        /\ last' = [op |-> "get", key |-> k, value |-> 0, ret |-> res.ret]
        /\ UNCHANGED <<shadow, hasher>>

\* the value the reference driver gives a key, insert(i, i), folded into
\* Values
DriverValue(k) == (k % NumValues) + 1

\* No branch of the code reads a value, so a key the table does not find is
\* inserted with its driver value; a key it finds is inserted again with any
\* value.
Next ==
    \/ \E k \in Keys, v \in Values :
          /\ v = DriverValue(k) \/ get(Map, k).ret # None
          /\ Insert(k, v)
    \/ \E k \in Keys : Remove(k)
    \/ \E k \in Keys : Get(k)

Spec == Init /\ [][Next]_vars

\* the first loop of the reference driver, in any order: insert(i, i) of keys
\* not yet inserted
InitGrow ==
    /\ len = Default.len
    /\ global_depth = Default.global_depth
    /\ directories = Default.directories
    /\ buckets = Default.buckets
    /\ fault = Default.fault
    /\ last = [op |-> "new", key |-> 0, value |-> 0, ret |-> None]
    /\ shadow = [k \in Keys \cup GrowKeys |-> None]
    /\ hasher = GrowTable

NextGrow ==
    \E k \in GrowKeys : shadow[k] = None /\ Insert(k, DriverValue(k))

SpecGrow == InitGrow /\ [][NextGrow]_vars

\* a hasher under which BUCKET_CAP + 1 keys share one full-width hash and a
\* further key differs from them in the last bit only
CrowdTable == <<5, 5, 5, 5, 4>>

InitCrowd ==
    /\ len = Default.len
    /\ global_depth = Default.global_depth
    /\ directories = Default.directories
    /\ buckets = Default.buckets
    /\ fault = Default.fault
    /\ last = [op |-> "new", key |-> 0, value |-> 0, ret |-> None]
    /\ shadow = [k \in Keys \cup GrowKeys |-> None]
    /\ hasher = CrowdTable

SpecCrowd == InitCrowd /\ [][Next]_vars

\* get_first_n_bits and bits_to_value on their own, as locate_bucket uses
\* them: any hash num, any depth n below the hash width, and the directory
\* indexes of num at the depths n and n + 1
InitBits ==
    /\ len = Default.len
    /\ global_depth = Default.global_depth
    /\ directories = Default.directories
    /\ buckets = Default.buckets
    /\ fault = Default.fault
    /\ last \in {[op |-> "new", num |-> num, n |-> n, ret |-> None] :
                    num \in 0 .. (HashModulus - 1), n \in 0 .. (HashBits - 1)}
    /\ shadow = [k \in Keys \cup GrowKeys |-> None]
    /\ hasher = GrowTable

FirstBits ==
    /\ last.op = "new"
    /\ last' = [last EXCEPT
                  !.op = "get_first_n_bits",
                  !.ret = [first_bits |-> get_first_n_bits(last.n, last.num),
                           directory_idx |->
                               bits_to_value(get_first_n_bits(last.n, last.num)),
                           next_bits |-> get_first_n_bits(last.n + 1, last.num),
                           next_idx |->
                               bits_to_value(get_first_n_bits(last.n + 1, last.num))]]
    /\ UNCHANGED <<len, global_depth, directories, buckets, fault, shadow,
                   hasher>>

NextBits == FirstBits

SpecBits == InitBits /\ [][NextBits]_vars

\* the bit patterns of local depth n
BitSeqs(n) == [1 .. n -> {0, 1}]

\* BucketValue::last_half_range on its own: a bucket of any bit pattern of
\* local depth 1 .. global_depth, its value at the global depth, and the
\* upper half of that value
InitRange ==
    /\ len = 0
    /\ global_depth \in 1 .. MaxDepth
    /\ buckets \in {<<Bucket_new(bits)>> :
                       bits \in UNION {BitSeqs(n) : n \in 1 .. global_depth}}
    /\ directories = [i \in 1 .. Pow2(global_depth) |-> 0]
    /\ fault = NoFault
    /\ last = [op |-> "new", key |-> 0, value |-> 0, ret |-> None]
    /\ shadow = [k \in Keys \cup GrowKeys |-> None]
    /\ hasher = GrowTable

LastHalfRange ==
    /\ last.op = "new"
    /\ last' = [op |-> "last_half_range", key |-> 0,
                value |-> value(buckets[1], global_depth),
                ret |-> last_half_range(value(buckets[1], global_depth))]
    /\ UNCHANGED <<len, global_depth, directories, buckets, fault, shadow,
                   hasher>>

NextRange == LastHalfRange

SpecRange == InitRange /\ [][NextRange]_vars

(***************************************************************************)
(* Vocabulary of the properties.                                           *)
(***************************************************************************)
\* the key is an entry of some bucket in storage, routed to or not
Stored(m, k) == \E b \in 1 .. Len(m.buckets) : contains(m.buckets[b], k)

RECURSIVE TotalEntries(_)
TotalEntries(bks) ==
    IF bks = <<>> THEN 0 ELSE Len(Head(bks).data) + TotalEntries(Tail(bks))

\* the directory slots (from 0) that reference the bucket at bucket_idx
SlotsOf(m, bucket_idx) ==
    {i - 1 : i \in {j \in 1 .. Len(m.directories) : m.directories[j] = bucket_idx}}

Structure == <<len, global_depth, directories, buckets>>

Inserted == {k \in DOMAIN shadow : shadow[k] # None}

(***************************************************************************)
(* C1: after any sequence of inserts of distinct keys, every inserted key  *)
(* is retrievable with the value it was inserted with, and len() is the    *)
(* number of keys inserted.                                                *)
(***************************************************************************)
C1_AllRetrievable ==
    fault = NoFault =>
        /\ \A k \in Inserted : get(Map, k).ret = shadow[k]
        /\ len = Cardinality(Inserted)

(***************************************************************************)
(* C2: insert(k, v) of a key that is in no bucket completes without a      *)
(* fatal error, returns none, and get(k) then returns v.                   *)
(***************************************************************************)
C2_InsertThenGet ==
    [][(last'.op = "insert" /\ fault = NoFault /\ ~Stored(Map, last'.key)) =>
          /\ fault' = NoFault
          /\ last'.ret = None
          /\ get(Map', last'.key).ret = Some(last'.value)]_vars

(***************************************************************************)
(* C3: remove(k) of a key inserted with value v and not removed since      *)
(* returns v and decreases len() by one.                                   *)
(***************************************************************************)
C3_RemoveReturnsValue ==
    [][(last'.op = "remove" /\ fault = NoFault /\ shadow[last'.key] # None) =>
          /\ fault' = NoFault
          /\ last'.ret = shadow[last'.key]
          /\ len' = len - 1]_vars

(***************************************************************************)
(* C4: after remove(k) has returned a value, get(k) returns none and a     *)
(* second remove(k) returns none.                                          *)
(***************************************************************************)
C4_RemovedIsGone ==
    (last.op = "remove" /\ last.ret # None /\ fault = NoFault) =>
        /\ get(Map, last.key).ret = None
        /\ remove(Map, last.key).ret = None

(***************************************************************************)
(* C5: insert(k, v2) where k is stored with value v1 returns v1 and leaves *)
(* len() unchanged.                                                        *)
(***************************************************************************)
C5_DuplicateReturnsOld ==
    [][(last'.op = "insert" /\ fault = NoFault /\ get(Map, last'.key).ret # None) =>
          /\ last'.ret = get(Map, last'.key).ret
          /\ len' = len]_vars

(***************************************************************************)
(* C6: insert(k, v2) where k is stored updates the value in place: get(k)  *)
(* then returns v2, and buckets' bits, directory and global depth are      *)
(* unchanged.                                                              *)
(***************************************************************************)
C6_DuplicateUpdatesInPlace ==
    [][(last'.op = "insert" /\ fault = NoFault /\ get(Map, last'.key).ret # None) =>
          /\ get(Map', last'.key).ret = Some(last'.value)
          /\ global_depth' = global_depth
          /\ directories' = directories
          /\ Len(buckets') = Len(buckets)
          /\ \A b \in 1 .. Len(buckets) : buckets'[b].bits = buckets[b].bits]_vars

(***************************************************************************)
(* C7: between operations len() is the number of entries stored across all *)
(* buckets.                                                                *)
(***************************************************************************)
C7_LenIsTotal == fault = NoFault => len = TotalEntries(buckets)

(***************************************************************************)
(* C8: between operations no bucket holds more than BUCKET_CAP entries.    *)
(***************************************************************************)
C8_BucketCap ==
    fault = NoFault =>
        \A b \in 1 .. Len(buckets) : Len(buckets[b].data) <= BUCKET_CAP

\* a remove has just merged the last two sibling buckets of a directory that
\* an earlier split doubled, and a bucket holds BUCKET_CAP - 1 entries
C8_Witness ==
    /\ fault = NoFault
    /\ last.op = "remove" /\ last.ret # None
    /\ global_depth >= 2
    /\ Len(buckets) = 2
    /\ \E b \in 1 .. Len(buckets) : Len(buckets[b].data) = BUCKET_CAP - 1

(***************************************************************************)
(* C9: get(k) and remove(k) of a key that is in no bucket return none,     *)
(* raise no fault and leave len, the global depth, the directory and every *)
(* bucket unchanged.                                                       *)
(***************************************************************************)
C9_AbsentKeyNoEffect ==
    [][(last'.op \in {"get", "remove"} /\ fault = NoFault
            /\ ~Stored(Map, last'.key)) =>
          /\ last'.ret = None
          /\ fault' = NoFault
          /\ Structure' = Structure]_vars

(***************************************************************************)
(* C10: between operations the slots that reference a bucket are exactly   *)
(* the slots of its value at the global depth.                             *)
(***************************************************************************)
C10_FanOut ==
    fault = NoFault =>
        \A b \in 1 .. Len(buckets) :
            /\ value(buckets[b], global_depth).tag # "Panic"
            /\ SlotsOf(Map, b - 1) = ValueSlots(value(buckets[b], global_depth))

(***************************************************************************)
(* C11: in every split, each drained entry and the pending entry are       *)
(* routed to the bucket being split or to its new sibling: the assertion   *)
(* idx == bucket_to_split || idx == new_bucket_idx never fails.            *)
(***************************************************************************)
C11_SplitRoutesToPair ==
    fault \notin {"assertion failed: rehashed item",
                  "assertion failed: pending item"}

(***************************************************************************)
(* C12: for a Range value [s, e] of 2^m slots, m >= 1, last_half_range     *)
(* returns exactly the upper half [s + 2^(m-1), e], which has 2^(m-1)      *)
(* slots; for an EqualTo value it returns none.                            *)
(***************************************************************************)
C12_UpperHalf ==
    last.op = "last_half_range" =>
        LET m == global_depth - local_depth(buckets[1])
        IN  IF last.value.tag = "Range"
            THEN /\ m >= 1
                 /\ last.ret = Some([tag |-> "Range",
                                     start |-> last.value.start + Pow2(m - 1),
                                     end |-> last.value.end])
                 /\ Cardinality(ValueSlots(last.ret[1])) = Pow2(m - 1)
            ELSE last.ret = None

(***************************************************************************)
(* C13: a split of a bucket B whose local depth is less than the global    *)
(* depth leaves the global depth and the directory length unchanged,       *)
(* repoints exactly the upper half of B's pre-split slot range to the new  *)
(* sibling, and leaves the lower half and every slot outside the range as  *)
(* they were.  Checked on the split every insert into a full bucket makes. *)
(***************************************************************************)
C13_LocalSplitFrame ==
    [][(/\ last'.op = "insert"
        /\ fault = NoFault
        /\ ValidIdx(Map, locate_bucket(Map, last'.key))
        /\ ~contains(buckets[locate_bucket(Map, last'.key) + 1], last'.key)
        /\ Len(buckets[locate_bucket(Map, last'.key) + 1].data) = BUCKET_CAP
        /\ local_depth(buckets[locate_bucket(Map, last'.key) + 1]) < global_depth)
       =>
       LET bucket_to_split == locate_bucket(Map, last'.key)
           B == buckets[bucket_to_split + 1]
           range == ValueSlots(value(B, global_depth))
           low == value(B, global_depth).start
           upper == {i \in range : i >= low + Cardinality(range) \div 2}
           after == split_directory(Map, bucket_to_split)
       IN  /\ after.fault = NoFault
           /\ after.global_depth = global_depth
           /\ Len(after.directories) = Len(directories)
           /\ \A i \in 0 .. (Len(directories) - 1) :
                 after.directories[i + 1] =
                     IF i \in upper THEN Len(buckets) ELSE directories[i + 1]]_vars

(***************************************************************************)
(* C14: a split of a bucket whose local depth equals the global depth      *)
(* increases the global depth by exactly one and doubles the directory     *)
(* length, and no other step changes either: get, remove and an insert     *)
(* that splits no bucket leave both alone, and no step decreases them.     *)
(* So the directory has 2^global_depth slots and capacity() is             *)
(* 2^global_depth * BUCKET_CAP in every state.                             *)
(***************************************************************************)
C14_DoublingOnly ==
    [][LET bucket_idx == locate_bucket(Map, last'.key)
           splits == /\ last'.op = "insert"
                     /\ ValidIdx(Map, bucket_idx)
                     /\ ~contains(buckets[bucket_idx + 1], last'.key)
                     /\ Len(buckets[bucket_idx + 1].data) = BUCKET_CAP
           after == split_directory(Map, bucket_idx)
       IN  /\ Len(directories) = Pow2(global_depth)
           /\ Len(directories') = Pow2(global_depth')
           /\ capacity(Map) = Pow2(global_depth) * BUCKET_CAP
           /\ capacity(Map') = Pow2(global_depth') * BUCKET_CAP
           /\ global_depth' >= global_depth
           /\ ~splits => /\ global_depth' = global_depth
                         /\ Len(directories') = Len(directories)
           /\ (splits /\ local_depth(buckets[bucket_idx + 1]) = global_depth)
                 => /\ after.fault = NoFault
                    /\ after.global_depth = global_depth + 1
                    /\ Len(after.directories) = 2 * Len(directories)
                    /\ global_depth' > global_depth
           /\ (splits /\ local_depth(buckets[bucket_idx + 1]) < global_depth)
                 => /\ after.global_depth = global_depth
                    /\ Len(after.directories) = Len(directories)]_vars

\* one insert into a full bucket has doubled the directory twice: the table
\* holds BUCKET_CAP + 1 entries at global depth 3
C14_Witness ==
    /\ fault = NoFault
    /\ last.op = "insert" /\ last.ret = None
    /\ len = BUCKET_CAP + 1
    /\ global_depth = 3
    /\ Len(directories) = 8

(***************************************************************************)
(* C15: between operations every entry (k, v) stored in a bucket b has the *)
(* first local_depth(b) bits of hash(k) equal to b.bits, and               *)
(* locate_bucket(k) returns b.                                             *)
(***************************************************************************)
C15_EntriesRouted ==
    fault = NoFault =>
        \A b \in 1 .. Len(buckets) :
            \A i \in 1 .. Len(buckets[b].data) :
                LET k == buckets[b].data[i][1]
                IN  /\ get_first_n_bits(local_depth(buckets[b]), hash_res(k))
                          = buckets[b].bits
                    /\ locate_bucket(Map, k) = b - 1

(***************************************************************************)
(* C16: in every state every bucket's local depth is at least 1 and at     *)
(* most the global depth, and neither assert!(old_local_depth <=           *)
(* old_global_depth) in split nor assert!(local_depth < global_depth) in   *)
(* Bucket::value has failed, at whatever point of split or remove the      *)
(* value was taken.                                                        *)
(***************************************************************************)
C16_DepthBounds ==
    /\ fault \notin {"assertion failed: old_local_depth <= old_global_depth",
                     "assertion failed: local_depth < global_depth"}
    /\ \A b \in 1 .. Len(buckets) :
          /\ local_depth(buckets[b]) >= 1
          /\ local_depth(buckets[b]) <= global_depth

\* a remove has merged the two buckets of local depth 3 of a directory that
\* was doubled twice: the survivor has local depth 2, beside a bucket of local
\* depth 1
C16_Witness ==
    /\ fault = NoFault
    /\ last.op = "remove" /\ last.ret # None
    /\ global_depth = 3
    /\ Len(buckets) = 3
    /\ \E b \in 1 .. Len(buckets) : local_depth(buckets[b]) = 1
    /\ \E b \in 1 .. Len(buckets) :
          local_depth(buckets[b]) = 2 /\ Len(buckets[b].data) = BUCKET_CAP - 1

(***************************************************************************)
(* C17: a remove that deletes an entry merges two buckets only when, after *)
(* the deletion, the bucket's local depth is at least 2, the bucket found  *)
(* by flipping its last bit has the same local depth, and the two hold     *)
(* strictly fewer than BUCKET_CAP entries together; in every other case    *)
(* the directory and every bucket are as before, less the one entry.       *)
(***************************************************************************)
C17_MergeOnlyWhenAllowed ==
    [][(last'.op = "remove" /\ fault = NoFault /\ last'.ret # None) =>
       LET bucket_idx == locate_bucket(Map, last'.key)
           deleted == [buckets EXCEPT ![bucket_idx + 1].data =
                         RemoveAt(@, position(@, last'.key))]
           bucket == deleted[bucket_idx + 1]
           sibling_idx == sibling_of(Map, bucket)
           sibling == deleted[sibling_idx + 1]
           allowed == /\ local_depth(bucket) >= 2
                      /\ local_depth(sibling) = local_depth(bucket)
                      /\ Len(sibling.data) + Len(bucket.data) < BUCKET_CAP
           merged == \/ Len(buckets') # Len(buckets)
                     \/ \E b \in 1 .. Len(buckets) :
                           buckets'[b].bits # buckets[b].bits
       IN  /\ merged => allowed
           /\ ~allowed => /\ directories' = directories
                          /\ buckets' = deleted
                          /\ global_depth' = global_depth]_vars

\* a remove has left a bucket of local depth >= 2 and its sibling of the same
\* depth with exactly BUCKET_CAP entries together, and they were not merged
C17_Witness ==
    /\ fault = NoFault
    /\ last.op = "remove" /\ last.ret # None
    /\ ValidIdx(Map, locate_bucket(Map, last.key))
    /\ LET bucket == buckets[locate_bucket(Map, last.key) + 1]
       IN  /\ local_depth(bucket) >= 2
           /\ ValidIdx(Map, sibling_of(Map, bucket))
           /\ sibling_of(Map, bucket) # locate_bucket(Map, last.key)
           /\ local_depth(buckets[sibling_of(Map, bucket) + 1])
                 = local_depth(bucket)
           /\ Len(buckets[sibling_of(Map, bucket) + 1].data)
                 + Len(bucket.data) = BUCKET_CAP

(***************************************************************************)
(* C18: when a remove merges sibling buckets, the survivor is the bucket   *)
(* whose last bit was 0 and the bucket removed from storage the one whose  *)
(* last bit was 1; the survivor's local depth is one less, it holds the    *)
(* entries of both, every slot that referenced either references it, and   *)
(* every other bucket is unchanged and referenced by the same slots as     *)
(* before, at its index after the shift.                                   *)
(***************************************************************************)
C18_MergeResult ==
    [][(/\ last'.op = "remove" /\ fault = NoFault /\ last'.ret # None
        /\ Len(buckets') # Len(buckets))
       =>
       LET bucket_idx == locate_bucket(Map, last'.key)
           deleted == [buckets EXCEPT ![bucket_idx + 1].data =
                         RemoveAt(@, position(@, last'.key))]
           bucket == deleted[bucket_idx + 1]
           sibling_idx == sibling_of(Map, bucket)
           zero == IF bucket.bits[Len(bucket.bits)] = 0
                   THEN bucket_idx ELSE sibling_idx
           one == IF bucket.bits[Len(bucket.bits)] = 0
                  THEN sibling_idx ELSE bucket_idx
           shifted(b) == IF b > one THEN b - 1 ELSE b
           survivor == buckets'[shifted(zero) + 1]
       IN  /\ zero # one
           /\ deleted[zero + 1].bits[Len(deleted[zero + 1].bits)] = 0
           /\ deleted[one + 1].bits[Len(deleted[one + 1].bits)] = 1
           /\ Len(buckets') = Len(buckets) - 1
           /\ survivor.bits = SubSeq(deleted[zero + 1].bits, 1,
                                     Len(deleted[zero + 1].bits) - 1)
           /\ survivor.data = deleted[zero + 1].data \o deleted[one + 1].data
           /\ SlotsOf(Map', shifted(zero)) = SlotsOf(Map, zero) \cup SlotsOf(Map, one)
           /\ \A b \in 0 .. (Len(buckets) - 1) :
                 b \notin {zero, one} =>
                     /\ buckets'[shifted(b) + 1] = buckets[b + 1]
                     /\ SlotsOf(Map', shifted(b)) = SlotsOf(Map, b)]_vars

(***************************************************************************)
(* C19: between operations every directory slot holds a valid index into   *)
(* bucket storage, also after a coalesce has removed a bucket and shifted  *)
(* the later ones, so no operation fails with "locate_bucket() returns a   *)
(* wrong index".                                                           *)
(***************************************************************************)
C19_SlotsValid ==
    /\ fault # "locate_bucket() returns a wrong index"
    /\ fault = NoFault =>
          \A i \in 1 .. Len(directories) : directories[i] < Len(buckets)

(***************************************************************************)
(* C20: after any sequence of inserts and removes each key is stored at    *)
(* most once in the whole table: not twice in one bucket and not in two    *)
(* buckets.                                                                *)
(***************************************************************************)
C20_KeyStoredOnce ==
    fault = NoFault =>
        \A k \in Keys :
            Cardinality({p \in {<<b, i>> : b \in 1 .. Len(buckets),
                                          i \in 1 .. BUCKET_CAP} :
                            /\ p[2] <= Len(buckets[p[1]].data)
                            /\ buckets[p[1]].data[p[2]][1] = k}) <= 1

(***************************************************************************)
(* C21: the global depth never decreases, and a remove, with or without a  *)
(* coalesce, leaves the global depth and the directory length unchanged.   *)
(***************************************************************************)
C21_DepthMonotone ==
    [][/\ global_depth' >= global_depth
       /\ Len(directories') >= Len(directories)
       /\ last'.op = "remove" => /\ global_depth' = global_depth
                                 /\ Len(directories') = Len(directories)]_vars

\* removes have emptied a table whose directory was doubled twice and merged
\* its buckets back to two: the directory keeps its eight slots
C21_Witness ==
    /\ fault = NoFault
    /\ last.op = "remove" /\ last.ret # None
    /\ len = 0
    /\ Len(buckets) = 2
    /\ global_depth = 3
    /\ Len(directories) = 8

(***************************************************************************)
(* C22: one remove performs at most one merge step: the number of buckets  *)
(* in storage decreases by at most one, and does not grow, even when the   *)
(* merged bucket could merge again with its new sibling.                   *)
(***************************************************************************)
C22_OneMergePerRemove ==
    [][last'.op = "remove" =>
          /\ Len(buckets') >= Len(buckets) - 1
          /\ Len(buckets') <= Len(buckets)]_vars

\* a remove has merged two of the four buckets of a twice-doubled directory,
\* and the survivor, of local depth 2, and its sibling of the same depth
\* hold fewer than BUCKET_CAP entries together: they stay unmerged
C22_Witness ==
    /\ fault = NoFault
    /\ last.op = "remove" /\ last.ret # None
    /\ global_depth = 3
    /\ Len(buckets) = 3
    /\ \E b \in 1 .. Len(buckets) :
          /\ local_depth(buckets[b]) = 2
          /\ ValidIdx(Map, sibling_of(Map, buckets[b]))
          /\ sibling_of(Map, buckets[b]) # b - 1
          /\ local_depth(buckets[sibling_of(Map, buckets[b]) + 1]) = 2
          /\ Len(buckets[sibling_of(Map, buckets[b]) + 1].data)
                + Len(buckets[b].data) < BUCKET_CAP

(***************************************************************************)
(* C23: the recursive split of an insert terminates.  When the pending key *)
(* and the BUCKET_CAP entries of the full bucket do not all share one      *)
(* full-width hash, insert returns with the key stored after at most       *)
(* HashBits splits; when they do, the insert ends in a fatal error.        *)
(***************************************************************************)
C23_SplitTerminates ==
    [][(/\ last'.op = "insert"
        /\ fault = NoFault
        /\ ValidIdx(Map, locate_bucket(Map, last'.key))
        /\ ~contains(buckets[locate_bucket(Map, last'.key) + 1], last'.key))
       =>
       LET bucket == buckets[locate_bucket(Map, last'.key) + 1]
           crowded == /\ Len(bucket.data) = BUCKET_CAP
                      /\ \A i \in 1 .. Len(bucket.data) :
                            hash_res(bucket.data[i][1]) = hash_res(last'.key)
       IN  IF crowded
           THEN fault' # NoFault
           ELSE /\ fault' = NoFault
                /\ get(Map', last'.key).ret = Some(last'.value)
                /\ Len(buckets') - Len(buckets) <= HashBits]_vars

(***************************************************************************)
(* C24: prefix consistency of addressing.  For every hash and depth d      *)
(* below the hash width, the directory index at depth d + 1 is 2i or       *)
(* 2i + 1 for the index i at depth d; get_first_n_bits returns the n       *)
(* most-significant bits, most-significant first (all ones for the largest *)
(* hash, all zeros for 0), and bits_to_value reads a bit sequence          *)
(* most-significant first ([1, 1, 0] is 6).                                *)
(***************************************************************************)
C24_PrefixConsistent ==
    last.op = "get_first_n_bits" =>
        LET msb(j) == (last.num \div Pow2(HashBits - j)) % 2
        IN  /\ last.ret.next_idx \in {2 * last.ret.directory_idx,
                                      2 * last.ret.directory_idx + 1}
            /\ last.ret.first_bits = [j \in 1 .. last.n |-> msb(j)]
            /\ last.ret.next_bits = [j \in 1 .. (last.n + 1) |-> msb(j)]
            /\ last.ret.directory_idx = last.num \div Pow2(HashBits - last.n)
            /\ last.ret.next_idx = last.num \div Pow2(HashBits - last.n - 1)
            /\ last.num = HashModulus - 1 =>
                  last.ret.next_bits = [j \in 1 .. (last.n + 1) |-> 1]
            /\ last.num = 0 =>
                  last.ret.next_bits = [j \in 1 .. (last.n + 1) |-> 0]
            /\ bits_to_value(<<1, 1, 0>>) = 6

\* the full width of the largest hash has been taken: every bit is 1 and the
\* index is the hash itself
C24_Witness ==
    /\ last.op = "get_first_n_bits"
    /\ last.num = HashModulus - 1
    /\ last.n = HashBits - 1
    /\ last.ret.next_bits = [j \in 1 .. HashBits |-> 1]
    /\ last.ret.next_idx = HashModulus - 1

(***************************************************************************)
(* C25: for every bit pattern of length ld and every global depth          *)
(* gd >= ld, Bucket::value(gd) is EqualTo(n), n the binary number the bits *)
(* spell, when ld = gd, and otherwise the Range from the bits followed by  *)
(* gd - ld zeros to that plus 2^(gd-ld) - 1: its indexes are exactly the   *)
(* gd-bit numbers whose top ld bits are the bits.  Bits [1, 1] give        *)
(* Range 6..=7 at depth 3 and EqualTo(3) at depth 2.                       *)
(***************************************************************************)
C25_ValueIsImage ==
    last.op = "last_half_range" =>
        LET bits == buckets[1].bits
            ld == Len(bits)
            n == CHOOSE x \in 0 .. (Pow2(ld) - 1) :
                    \A j \in 1 .. ld : (x \div Pow2(ld - j)) % 2 = bits[j]
            span == Pow2(global_depth - ld)
        IN  /\ IF ld = global_depth
               THEN last.value = [tag |-> "EqualTo", start |-> n, end |-> n]
               ELSE last.value = [tag |-> "Range", start |-> n * span,
                                  end |-> n * span + span - 1]
            /\ ValueSlots(last.value) =
                  {i \in 0 .. (Pow2(global_depth) - 1) : i \div span = n}
            /\ value(Bucket_new(<<1, 1>>), 3)
                  = [tag |-> "Range", start |-> 6, end |-> 7]
            /\ value(Bucket_new(<<1, 1>>), 2)
                  = [tag |-> "EqualTo", start |-> 3, end |-> 3]

\* the value of bits [1, 1] at global depth 3 has been taken: Range 6..=7
C25_Witness ==
    /\ last.op = "last_half_range"
    /\ buckets[1].bits = <<1, 1>>
    /\ global_depth = 3
    /\ last.value = [tag |-> "Range", start |-> 6, end |-> 7]

====
